---- MODULE Spec2Model ----
(***************************************************************************)
(* AuraSync: the session state of App.tsx, the composite generation        *)
(* orchestration (handleGeneration / generateVisual) and the bounded       *)
(* undo/redo history of useHistoryManager.                                 *)
(*                                                                         *)
(* React state is modelled by its committed value after each handler or    *)
(* callback has run to its next suspension point.  A closure created by    *)
(* useCallback reads the values of the render in which it was memoised:    *)
(* handleGeneration (deps: prompt, roomImage, products, generatedImage,    *)
(* isInitialGeneration) keeps the saveToHistory of that render, and with   *)
(* it that render's currentState and currentIndex.                         *)
(***************************************************************************)
EXTENDS Integers, Sequences, FiniteSets, TLC

\* ------------------------------------------------------------------ bounds
MaxPending == 1        \* composite requests / deferred commits outstanding
MaxPendingReset == 2   \* the same, in behaviours with resets
MaxResets == 1         \* resets (start over) in one behaviour
MaxRequests == 6       \* composite requests in one behaviour without a reset
MaxRequestsReset == 3  \* composite requests in one behaviour with resets

\* ------------------------------------------------------- values of the model
\* An image in the session is a data URL, kept as <<mime type, base64 payload>>;
\* an absent image (null) is the empty tuple.
Null == <<>>
NoText == ""                     \* null / empty string: the code tests truthiness only
DataUrl(mime, data) == <<mime, data>>
INITIAL_ROOM_IMAGE == Null
INITIAL_PRODUCT_IMAGE == Null
maxHistorySize == 3

Prompts == {"p1"}                                \* prompts a user types
Uploads == {DataUrl("image/jpeg", "u1")}         \* images a user uploads
GenData == {"g1", "g2"}                          \* payloads the service returns

VARIABLES
  roomImage, products, prompt, generatedImage, isLoading, error,
  isInitialGeneration,
  history, currentIndex,
  hgIndex,        \* currentIndex of the render whose saveToHistory handleGeneration holds
  productsRef,    \* index of the history entry whose products array is the current
                  \* products array (restored and not replaced since), else -1
  pending,        \* composite requests awaiting generateVisual
  saveTimers,     \* setTimeout(saveToHistory, 100) callbacks not yet run, oldest first
  promptTimers,   \* setTimeout(setPrompt(''), 0) callbacks not yet run
  nResets,        \* resetExperience calls so far
  nRequests,      \* composite requests sent so far
  isGeneratingRoom,
  itemPending,    \* generateSourceImage calls of handleGenerateProduct not yet settled
  roomPending,    \* generateSourceImage calls of handleGenerateRoom not yet settled
  nSourceRequests, \* generateSourceImage calls so far
  run,            \* history: the snapshots appended since the last undo, redo or clear
                  \* (their number up to K+1, and the K latest of them), the number
                  \* of composites generated since then (up to 2) and the composite
                  \* shown before the latest of them
  undoFrom,       \* history: cursor, entries and composite on display before the last
                  \* undo, while no commit or clear followed it; redone once a redo
                  \* followed it; last is the latest store operation while no commit
                  \* followed it
  loadingProgress, \* the number LoadingProgress displays, in whole units
  loadingStatus,  \* the status line LoadingProgress displays
  showLoadingProgress, \* whether LoadingProgress is visible
  statusIndex,    \* the statusIndex of each simulateProgress call not yet settled,
                  \* in the order of pending
  hideTimers      \* setTimeout(() => setShowLoadingProgress(false), 500) not yet run

session == <<roomImage, products, prompt, generatedImage, isLoading, error,
             isInitialGeneration>>
store == <<history, currentIndex>>
ghost == <<run, undoFrom>>
sources == <<isGeneratingRoom, itemPending, roomPending, nSourceRequests>>
vars == <<roomImage, products, prompt, generatedImage, isLoading, error,
          isInitialGeneration, history, currentIndex, hgIndex, productsRef,
          pending, saveTimers, promptTimers, nResets, nRequests,
          isGeneratingRoom, itemPending, roomPending, nSourceRequests, run, undoFrom,
          loadingProgress, loadingStatus, showLoadingProgress, statusIndex, hideTimers>>
progress == <<loadingProgress, loadingStatus, showLoadingProgress, statusIndex, hideTimers>>

\* --------------------------------------------------------------- helpers
Truthy(s) == s # NoText
Present(img) == img # Null

SeqMap(f(_), s) == [i \in 1..Len(s) |-> f(s[i])]

\* Array.prototype.splice(start): keeps the first `start` elements.
Splice(s, start) == IF start >= Len(s) THEN s ELSE SubSeq(s, 1, start)
RemoveAt(s, i) == SubSeq(s, 1, i - 1) \o SubSeq(s, i + 1, Len(s))
\* Array.prototype.shift(): drops the first element.
Shift(s) == Tail(s)

\* The state object App.tsx hands to useHistoryManager on every render.
currentState ==
  [generatedImage |-> generatedImage, prompt |-> prompt, roomImage |-> roomImage,
   products |-> products, isInitialGeneration |-> isInitialGeneration]

NoRun == [n |-> 0, latest |-> <<>>, gens |-> 0, prev |-> Null]
NoUndo == [valid |-> FALSE, redone |-> FALSE, cursor |-> -1, entries |-> <<>>, last |-> "none",
           shown |-> Null]

\* useCallback: handleGeneration is re-created, and picks up the saveToHistory
\* of the new render, exactly when one of its dependencies changed.
Memo(productsReplaced) ==
  hgIndex' = IF \/ prompt' # prompt
                \/ roomImage' # roomImage
                \/ productsReplaced
                \/ generatedImage' # generatedImage
                \/ isInitialGeneration' # isInitialGeneration
             THEN currentIndex'
             ELSE hgIndex

\* ------------------------------------------------------------------ Init
Init ==
  /\ roomImage = INITIAL_ROOM_IMAGE
  /\ products = <<[id |-> 1, image |-> INITIAL_PRODUCT_IMAGE, isGenerating |-> FALSE]>>
  /\ prompt = ""
  /\ generatedImage = Null
  /\ isLoading = FALSE
  /\ error = NoText
  /\ isInitialGeneration = TRUE
  /\ history = <<>>
  /\ currentIndex = -1
  /\ hgIndex = -1
  /\ productsRef = -1
  /\ pending = <<>>
  /\ saveTimers = <<>>
  /\ promptTimers = 0
  /\ nResets = 0
  /\ nRequests = 0
  /\ isGeneratingRoom = FALSE
  /\ itemPending = <<>>
  /\ roomPending = 0
  /\ nSourceRequests = 0
  /\ run = NoRun
  /\ undoFrom = NoUndo
  /\ loadingProgress = 0
  /\ loadingStatus = "Initializing..."
  /\ showLoadingProgress = FALSE
  /\ statusIndex = <<>>
  /\ hideTimers = 0


\* ------------------------------------------------- useHistoryManager (store)
At(h, i) == h[i + 1]                              \* history[i], 0-based as in the source

canUndo == currentIndex > 0
canRedo_OffByOne == currentIndex < Len(history)
canRedo == currentIndex < Len(history) - 1
hasHistory == Len(history) > 0
historyLength == Len(history)

\* const newState: HistoryState = {...}
NewSnapshot(cs) ==
  [generatedImage |-> cs.generatedImage,
   prompt |-> cs.prompt,
   roomImage |-> cs.roomImage,
   products |-> SeqMap(LAMBDA p : p, cs.products),
   isInitialGeneration |-> cs.isInitialGeneration]

\* if (currentIndex >= 0) newHistory.splice(currentIndex + 1)
Truncate(prev, ci) == IF ci >= 0 THEN Splice(prev, ci + 1) ELSE prev

\* if (newHistory.length > maxHistorySize) newHistory.shift()
Limit(h) == IF Len(h) > maxHistorySize THEN Shift(h) ELSE h

\* The updater passed to setHistory: prev is the store's latest history, ci the
\* currentIndex the calling closure saw.
NewHistory(prev, cs, ci) == Limit(Append(Truncate(prev, ci), NewSnapshot(cs)))

\* Where the entry at index ref is after the updater ran on a history of length
\* n (-1: it was removed by the splice or the shift).
RefAfterSave(ref, ci, n) ==
  LET kept == IF ci >= 0 /\ ref > ci THEN -1 ELSE ref
      len == (IF ci >= 0 /\ ci + 1 < n THEN ci + 1 ELSE n) + 1
  IN  IF len > maxHistorySize THEN (IF kept <= 0 THEN -1 ELSE kept - 1) ELSE kept

\* saveToHistory as called by the closure of a render whose currentState was
\* cs and whose currentIndex was ci.
saveToHistory(cs, ci) ==
  IF ~Present(cs.generatedImage)
  THEN UNCHANGED <<history, currentIndex, productsRef>>
  ELSE /\ history' = NewHistory(history, cs, ci)
       /\ currentIndex' = Len(history') - 1
       /\ productsRef' = RefAfterSave(productsRef, ci, Len(history))

onStateRestore_KeepsError(state, index) ==
  /\ generatedImage' = state.generatedImage
  /\ prompt' = state.prompt
  /\ roomImage' = state.roomImage
  /\ products' = state.products
  /\ isInitialGeneration' = state.isInitialGeneration
  /\ error' = error
  /\ productsRef' = index

\* onStateRestore of App.tsx: the snapshot's fields replace the session's.
onStateRestore(state, index) ==
  /\ generatedImage' = state.generatedImage
  /\ prompt' = state.prompt
  /\ roomImage' = state.roomImage
  /\ products' = state.products
  /\ isInitialGeneration' = state.isInitialGeneration
  /\ error' = NoText
  /\ productsRef' = index

UndoIndex(i) == i - 1
RedoIndex_Stays(i) == i
RedoIndex(i) == i + 1

undo_FromZero ==
  /\ IF currentIndex >= 0
     THEN /\ currentIndex' = IF currentIndex > 0 THEN UndoIndex(currentIndex) ELSE 0
          /\ onStateRestore(At(history, currentIndex'), currentIndex')
          /\ Memo(productsRef' # productsRef)
          /\ run' = NoRun
          /\ undoFrom' = [valid |-> TRUE, redone |-> FALSE, cursor |-> currentIndex,
                           entries |-> history, last |-> "undo", shown |-> generatedImage]
     ELSE /\ undoFrom' = [undoFrom EXCEPT !.last = "undo refused"]
          /\ UNCHANGED <<currentIndex, generatedImage, prompt, roomImage, products,
                         isInitialGeneration, error, productsRef, hgIndex, run>>
  /\ UNCHANGED <<history, isLoading, pending, saveTimers, promptTimers, nResets, nRequests, sources, progress>>

undo_Pops ==
  /\ IF currentIndex > 0
     THEN /\ currentIndex' = UndoIndex(currentIndex)
          /\ onStateRestore(At(history, currentIndex'), currentIndex')
          /\ history' = SubSeq(history, 1, currentIndex)
          /\ Memo(productsRef' # productsRef)
          /\ run' = NoRun
          /\ undoFrom' = [valid |-> TRUE, redone |-> FALSE, cursor |-> currentIndex,
                           entries |-> history, last |-> "undo", shown |-> generatedImage]
     ELSE /\ undoFrom' = [undoFrom EXCEPT !.last = "undo refused"]
          /\ UNCHANGED <<history, currentIndex, generatedImage, prompt, roomImage, products,
                         isInitialGeneration, error, productsRef, hgIndex, run>>
  /\ UNCHANGED <<isLoading, pending, saveTimers, promptTimers, nResets, nRequests, sources, progress>>

\* const undo = useCallback(...)
undo ==
  /\ IF currentIndex > 0
     THEN /\ currentIndex' = UndoIndex(currentIndex)
          /\ onStateRestore(At(history, currentIndex'), currentIndex')
          /\ Memo(productsRef' # productsRef)
          /\ run' = NoRun
          /\ undoFrom' = [valid |-> TRUE, redone |-> FALSE, cursor |-> currentIndex,
                           entries |-> history, last |-> "undo", shown |-> generatedImage]
     ELSE /\ undoFrom' = [undoFrom EXCEPT !.last = "undo refused"]
          /\ UNCHANGED <<currentIndex, generatedImage, prompt, roomImage, products,
                         isInitialGeneration, error, productsRef, hgIndex, run>>
  /\ UNCHANGED <<history, isLoading, pending, saveTimers, promptTimers, nResets, nRequests, sources, progress>>

redo ==
  /\ IF currentIndex < Len(history) - 1
     THEN /\ currentIndex' = RedoIndex(currentIndex)
          /\ onStateRestore(At(history, currentIndex'), currentIndex')
          /\ Memo(productsRef' # productsRef)
          /\ undoFrom' = IF undoFrom.valid
                         THEN [undoFrom EXCEPT !.valid = FALSE, !.redone = TRUE, !.last = "redo"]
                         ELSE [NoUndo EXCEPT !.last = "redo"]
          /\ run' = NoRun
     ELSE /\ undoFrom' = [undoFrom EXCEPT !.last = "redo refused"]
          /\ UNCHANGED <<currentIndex, generatedImage, prompt, roomImage, products,
                         isInitialGeneration, error, productsRef, hgIndex, run>>
  /\ UNCHANGED <<history, isLoading, pending, saveTimers, promptTimers, nResets, nRequests, sources, progress>>

clearHistory_DropsNewest ==
  /\ history' = IF history = <<>> THEN <<>> ELSE SubSeq(history, 1, Len(history) - 1)
  /\ currentIndex' = Len(history') - 1

clearHistory_KeepsCursor ==
  /\ history' = <<>>
  /\ currentIndex' = currentIndex

\* setHistory([]); setCurrentIndex(-1)
clearHistory ==
  /\ history' = <<>>
  /\ currentIndex' = -1

onClearHistory ==
  /\ clearHistory
  /\ productsRef' = -1
  /\ run' = NoRun
  /\ undoFrom' = [NoUndo EXCEPT !.last = IF undoFrom.last \in {"clear", "clear again"}
                                        THEN "clear again"
                                        ELSE IF history = <<>> THEN "clear of empty"
                                        ELSE "clear"]
  /\ UNCHANGED <<session, hgIndex, pending, saveTimers, promptTimers, nResets, nRequests, sources, progress>>

\* The callback of setTimeout(() => saveToHistory(), 100) scheduled by a
\* successful composite generation.
saveTimerFires ==
  /\ saveTimers # <<>>
  /\ LET t == Head(saveTimers) IN
       /\ saveToHistory(t.cs, t.ci)
       /\ run' = IF Present(t.cs.generatedImage)
                 THEN [run EXCEPT !.n = IF run.n > maxHistorySize THEN run.n ELSE run.n + 1,
                                  !.latest = Limit(Append(run.latest, NewSnapshot(t.cs)))]
                 ELSE run
       /\ undoFrom' = IF Present(t.cs.generatedImage) THEN NoUndo ELSE undoFrom
  /\ saveTimers' = Tail(saveTimers)
  /\ UNCHANGED <<session, hgIndex, pending, promptTimers, nResets, nRequests, sources, progress>>


\* ------------------------------------------------ geminiService.generateVisual
\* dataUrlToGeminiPart: "data:<mime>;base64,<data>" split at ";base64," and ":".
dataUrlToGeminiPart(dataUrl) ==
  [inlineData |-> [mimeType |-> dataUrl[1], data |-> dataUrl[2]]]

TextPart(t) == [text |-> t]
ImagePart(d) == [inlineData |-> [mimeType |-> "image/png", data |-> d]]
IsImagePart(part) == "inlineData" \in DOMAIN part /\ Truthy(part.inlineData.data)
IsTextPart(part) == ~IsImagePart(part) /\ "text" \in DOMAIN part /\ Truthy(part.text)

\* The loops over response.candidates[0].content.parts: the last image part and
\* the last text part win.
ResultImage(parts) ==
  LET imgs == SelectSeq(parts, IsImagePart)
  IN  IF imgs = <<>> THEN NoText ELSE imgs[Len(imgs)].inlineData.data
ResultText(parts) ==
  LET txts == SelectSeq(parts, IsTextPart)
  IN  IF txts = <<>> THEN NoText ELSE txts[Len(txts)].text

\* What ai.models.generateContent can answer: it throws, or returns the parts of
\* the first candidate and an optional promptFeedback.
Throws(msg) == [throws |-> TRUE, message |-> msg, parts |-> <<>>,
                blockReason |-> NoText, blockReasonMessage |-> NoText]
Returns(parts) == [throws |-> FALSE, message |-> NoText, parts |-> parts,
                   blockReason |-> NoText, blockReasonMessage |-> NoText]
Blocked(reason, msg) == [throws |-> FALSE, message |-> NoText, parts |-> <<>>,
                         blockReason |-> reason, blockReasonMessage |-> msg]

Responses ==
  {Throws("503"), Returns(<<>>), Returns(<<TextPart("cannot comply")>>),
   Blocked("SAFETY", "blocked")}
  \cup {Returns(<<ImagePart(d)>>) : d \in GenData}
  \cup {Returns(<<TextPart("here it is"), ImagePart(d)>>) : d \in GenData}

MultimodalParts_PromptFirst(params) ==
  <<TextPart(params.prompt)>>
  \o (IF Present(params.baseImage)
      THEN <<dataUrlToGeminiPart(params.baseImage)>>
      ELSE (IF Present(params.roomImage)
            THEN <<dataUrlToGeminiPart(params.roomImage)>> ELSE <<>>)
           \o SeqMap(dataUrlToGeminiPart, SelectSeq(params.productImages, Present)))

\* const parts = [...] of the multimodal attempt.
MultimodalParts(params) ==
  (IF Present(params.baseImage)
   THEN <<dataUrlToGeminiPart(params.baseImage)>>
   ELSE (IF Present(params.roomImage)
         THEN <<dataUrlToGeminiPart(params.roomImage)>> ELSE <<>>)
        \o SeqMap(dataUrlToGeminiPart, SelectSeq(params.productImages, Present)))
  \o <<TextPart(params.prompt)>>

Stage1Succeeds_AnyAnswer(r1) == ~r1.throws
\* if (resultImage) return {...} inside the inner try
Stage1Succeeds(r1) == ~r1.throws /\ Truthy(ResultImage(r1.parts))

generateVisual_IgnoresBlock(params, r1, r2) ==
  IF Stage1Succeeds(r1)
  THEN [threw |-> FALSE, image |-> ResultImage(r1.parts), text |-> ResultText(r1.parts),
        message |-> NoText, calls |-> 1]
  ELSE IF r2.throws
  THEN [threw |-> TRUE, image |-> NoText, text |-> NoText,
        message |-> "Gemini API Error: " \o r2.message, calls |-> 2]
  ELSE IF ~Truthy(ResultImage(r2.parts)) /\ ~Truthy(ResultText(r2.parts))
  THEN [threw |-> FALSE, image |-> NoText,
        text |-> "The model did not return any content. Try adjusting your prompt.",
        message |-> NoText, calls |-> 2]
  ELSE [threw |-> FALSE, image |-> ResultImage(r2.parts), text |-> ResultText(r2.parts),
        message |-> NoText, calls |-> 2]

generateVisual_NoFallback(params, r1, r2) ==
  IF Stage1Succeeds(r1)
  THEN [threw |-> FALSE, image |-> ResultImage(r1.parts), text |-> ResultText(r1.parts),
        message |-> NoText, calls |-> 1]
  ELSE [threw |-> TRUE, image |-> NoText, text |-> NoText,
        message |-> "Gemini API Error: " \o r1.message, calls |-> 1]

\* generateVisual, given the answers r1, r2 of the service to the multimodal
\* and to the text-only request (r2 is read only when stage 2 runs).
generateVisual(params, r1, r2) ==
  IF Stage1Succeeds(r1)
  THEN [threw |-> FALSE, image |-> ResultImage(r1.parts), text |-> ResultText(r1.parts),
        message |-> NoText, calls |-> 1]
  ELSE IF r2.throws
  THEN [threw |-> TRUE, image |-> NoText, text |-> NoText,
        message |-> "Gemini API Error: " \o r2.message, calls |-> 2]
  ELSE IF ~Truthy(ResultImage(r2.parts)) /\ ~Truthy(ResultText(r2.parts))
  THEN IF Truthy(r2.blockReason)
       THEN [threw |-> TRUE, image |-> NoText, text |-> NoText,
             message |-> "Gemini API Error: Request was blocked: " \o r2.blockReason
                         \o " - " \o r2.blockReasonMessage,
             calls |-> 2]
       ELSE [threw |-> FALSE, image |-> NoText,
             text |-> "The model did not return any content. Try adjusting your prompt.",
             message |-> NoText, calls |-> 2]
  ELSE [threw |-> FALSE, image |-> ResultImage(r2.parts), text |-> ResultText(r2.parts),
        message |-> NoText, calls |-> 2]


\* ------------------------------------------------------------------ App.tsx
MaxProducts == 2       \* product slots on screen

IdsOf(ps) == {ps[i].id : i \in DOMAIN ps}

\* prod-<Date.now()>: an id no live object carries (ids are only compared); the
\* closures of outstanding handleGenerateProduct calls hold ids too.
UsedIds ==
  IdsOf(products)
  \cup IdsOf(itemPending)
  \cup UNION {IdsOf(history[i].products) : i \in DOMAIN history}
  \cup UNION {IdsOf(pending[i].cs.products) : i \in DOMAIN pending}
  \cup UNION {IdsOf(saveTimers[i].cs.products) : i \in DOMAIN saveTimers}
FreshId == CHOOSE n \in 1..(Cardinality(UsedIds) + 1) :
             n \notin UsedIds /\ \A m \in 1..(n - 1) : m \in UsedIds

\* The "Add Product" button is rendered in INITIAL mode only.
handleAddProduct ==
  /\ isInitialGeneration
  /\ Len(products) < MaxProducts
  /\ products' = Append(products, [id |-> FreshId, image |-> Null, isGenerating |-> FALSE])
  /\ productsRef' = -1
  /\ UNCHANGED <<roomImage, prompt, generatedImage, isLoading, error, isInitialGeneration,
                 store, pending, saveTimers, promptTimers, nResets, nRequests, sources, ghost, progress>>
  /\ Memo(TRUE)

\* onRemove is offered while there is more than one product and the uploader is
\* not disabled; its button is drawn over the preview of a product's image.
handleRemoveProduct(id) ==
  /\ isInitialGeneration
  /\ Len(products) > 1
  /\ \E i \in DOMAIN products : products[i].id = id /\ Present(products[i].image)
  /\ products' = SelectSeq(products, LAMBDA p : p.id # id)
  /\ productsRef' = -1
  /\ UNCHANGED <<roomImage, prompt, generatedImage, isLoading, error, isInitialGeneration,
                 store, pending, saveTimers, promptTimers, nResets, nRequests, sources, ghost, progress>>
  /\ Memo(TRUE)

SetImage(ps, id, image) ==
  [i \in DOMAIN ps |-> IF ps[i].id = id THEN [ps[i] EXCEPT !.image = image] ELSE ps[i]]
SetGenerating_All(ps, id, flag) ==
  [i \in DOMAIN ps |-> [ps[i] EXCEPT !.isGenerating = flag]]
SetGenerating(ps, id, flag) ==
  [i \in DOMAIN ps |-> IF ps[i].id = id THEN [ps[i] EXCEPT !.isGenerating = flag] ELSE ps[i]]

\* An image arrives in a product slot: an upload (ImageUploader.onImageUpload)
\* or the result of handleGenerateProduct, which may settle in either mode.
handleUpdateProductImage(id, image) ==
  /\ products' = SetImage(products, id, image)
  /\ productsRef' = -1
  /\ UNCHANGED <<roomImage, prompt, generatedImage, isLoading, error, isInitialGeneration,
                 store, pending, saveTimers, promptTimers, nResets, nRequests, sources, ghost, progress>>
  /\ Memo(TRUE)

\* An image arrives in the room slot: an upload (onImageUpload={setRoomImage}) or
\* the result of handleGenerateRoom, which may settle in either mode.
setRoomImage(image) ==
  /\ roomImage' = image
  /\ UNCHANGED <<products, productsRef, prompt, generatedImage, isLoading, error,
                 isInitialGeneration, store, pending, saveTimers, promptTimers, nResets, nRequests, sources, ghost, progress>>
  /\ Memo(FALSE)

\* ImageUploader: a file is chosen or dropped; the file input and the drop zone
\* are disabled outside INITIAL mode (disabled={!isInitialGeneration}).
roomUpload(img) == isInitialGeneration /\ setRoomImage(img)
productUpload(id, img) == isInitialGeneration /\ handleUpdateProductImage(id, img)

\* ---- generateSourceImage, handleGenerateProduct, handleGenerateRoom
GenPrompts == {"a chair"}                        \* prompts typed into an uploader
SourceResponses == {Throws("503"), Returns(<<>>), Returns(<<ImagePart("s1")>>)}

\* The loop of generateSourceImage returns at the first part with image data.
FirstImage(parts) ==
  LET imgs == SelectSeq(parts, IsImagePart)
  IN  IF imgs = <<>> THEN NoText ELSE imgs[1].inlineData.data

\* generateSourceImage, given the answer r of the service.
generateSourceImage(r) ==
  IF r.throws
  THEN [threw |-> TRUE, image |-> Null, message |-> "Gemini API Error: " \o r.message]
  ELSE IF Truthy(FirstImage(r.parts))
  THEN [threw |-> FALSE, image |-> DataUrl("image/png", FirstImage(r.parts)),
        message |-> NoText]
  ELSE [threw |-> TRUE, image |-> Null,
        message |-> "Gemini API Error: Image generation failed: "
                    \o "The API did not return image data."]

handleGenerateProduct_NoCheck(id, genPrompt, index) ==
  /\ products' = SetGenerating(products, id, TRUE)
  /\ productsRef' = -1
  /\ error' = NoText
  /\ itemPending' = Append(itemPending, [id |-> id, index |-> index])
  /\ nSourceRequests' = nSourceRequests + 1
  /\ UNCHANGED <<roomImage, prompt, generatedImage, isLoading, isInitialGeneration, store,
                 pending, saveTimers, promptTimers, nResets, nRequests, isGeneratingRoom,
                 roomPending, ghost, progress>>
  /\ Memo(TRUE)

\* handleGenerateProduct up to its await (index is the 0-based position shown).
handleGenerateProduct(id, genPrompt, index) ==
  /\ IF ~Truthy(genPrompt)
     THEN /\ error' = "Please enter a prompt to generate Product "
                         \o ToString(index + 1) \o "."
          /\ UNCHANGED <<products, productsRef, itemPending, nSourceRequests>>
     ELSE /\ products' = SetGenerating(products, id, TRUE)
          /\ productsRef' = -1
          /\ error' = NoText
          /\ itemPending' = Append(itemPending, [id |-> id, index |-> index])
          /\ nSourceRequests' = nSourceRequests + 1
  /\ UNCHANGED <<roomImage, prompt, generatedImage, isLoading, isInitialGeneration, store,
                 pending, saveTimers, promptTimers, nResets, nRequests, isGeneratingRoom,
                 roomPending, ghost, progress>>
  /\ Memo(Truthy(genPrompt))

productGenerateClick_WhileBusy(i, genPrompt) ==
  /\ isInitialGeneration
  /\ Truthy(genPrompt)
  /\ handleGenerateProduct(products[i].id, genPrompt, i - 1)

\* ImageUploader.handleGenerateClick of the product at position i: the uploader
\* is disabled outside INITIAL mode and while its product is generating, the
\* button while the prompt is blank.
productGenerateClick(i, genPrompt) ==
  /\ isInitialGeneration
  /\ ~products[i].isGenerating
  /\ Truthy(genPrompt)
  /\ handleGenerateProduct(products[i].id, genPrompt, i - 1)

productSettles_Live(k, r) ==
  LET q == itemPending[k]
      res == generateSourceImage(r) IN
    /\ IF res.threw
       THEN /\ error' = "Error generating product " \o ToString(q.index + 1) \o ": "
                           \o res.message
            /\ products' = SetGenerating(products, q.id, FALSE)
            /\ UNCHANGED pending
       ELSE /\ products' = SetGenerating(SetImage(products, q.id, res.image), q.id, FALSE)
            /\ pending' = [i \in DOMAIN pending |->
                             [pending[i] EXCEPT !.params.productImages =
                                [j \in DOMAIN @ |-> res.image]]]
            /\ UNCHANGED error
    /\ productsRef' = -1
    /\ itemPending' = RemoveAt(itemPending, k)
    /\ UNCHANGED <<roomImage, prompt, generatedImage, isLoading, isInitialGeneration, store,
                   saveTimers, promptTimers, nResets, nRequests, isGeneratingRoom,
                   roomPending, nSourceRequests, ghost, progress>>
    /\ Memo(TRUE)

productSettles_NoFinally(k, r) ==
  LET q == itemPending[k]
      res == generateSourceImage(r) IN
    /\ IF res.threw
       THEN /\ error' = "Error generating product " \o ToString(q.index + 1) \o ": "
                           \o res.message
            /\ UNCHANGED products
       ELSE /\ products' = SetGenerating(SetImage(products, q.id, res.image), q.id, FALSE)
            /\ UNCHANGED error
    /\ productsRef' = -1
    /\ itemPending' = RemoveAt(itemPending, k)
    /\ UNCHANGED <<roomImage, prompt, generatedImage, isLoading, isInitialGeneration, store,
                   pending, saveTimers, promptTimers, nResets, nRequests, isGeneratingRoom,
                   roomPending, nSourceRequests, ghost, progress>>
    /\ Memo(TRUE)

\* handleGenerateProduct after its await, for the k-th outstanding call.
productSettles(k, r) ==
  LET q == itemPending[k]
      res == generateSourceImage(r) IN
    /\ IF res.threw
       THEN /\ error' = "Error generating product " \o ToString(q.index + 1) \o ": "
                           \o res.message
            /\ products' = SetGenerating(products, q.id, FALSE)
       ELSE /\ products' = SetGenerating(SetImage(products, q.id, res.image), q.id, FALSE)
            /\ UNCHANGED error
    /\ productsRef' = -1
    /\ itemPending' = RemoveAt(itemPending, k)
    /\ UNCHANGED <<roomImage, prompt, generatedImage, isLoading, isInitialGeneration, store,
                   pending, saveTimers, promptTimers, nResets, nRequests, isGeneratingRoom,
                   roomPending, nSourceRequests, ghost, progress>>
    /\ Memo(TRUE)

\* handleGenerateRoom up to its await.
handleGenerateRoom(genPrompt) ==
  /\ IF ~Truthy(genPrompt)
     THEN /\ error' = "Please enter a prompt to generate the room image."
          /\ UNCHANGED <<isGeneratingRoom, roomPending, nSourceRequests>>
     ELSE /\ isGeneratingRoom' = TRUE
          /\ error' = NoText
          /\ roomPending' = roomPending + 1
          /\ nSourceRequests' = nSourceRequests + 1
  /\ UNCHANGED <<roomImage, products, productsRef, prompt, generatedImage, isLoading,
                 isInitialGeneration, store, pending, saveTimers, promptTimers, nResets,
                 nRequests, itemPending, ghost, progress>>
  /\ Memo(FALSE)

\* ImageUploader.handleGenerateClick of the room uploader.
roomGenerateClick(genPrompt) ==
  /\ isInitialGeneration
  /\ ~isGeneratingRoom
  /\ Truthy(genPrompt)
  /\ handleGenerateRoom(genPrompt)

roomSettles_Accumulates(r) ==
  LET res == generateSourceImage(r) IN
    /\ roomPending > 0
    /\ IF res.threw
       THEN /\ error' = error \o "Error generating room: " \o res.message
            /\ UNCHANGED roomImage
       ELSE /\ roomImage' = res.image
            /\ UNCHANGED error
    /\ isGeneratingRoom' = FALSE
    /\ roomPending' = roomPending - 1
    /\ UNCHANGED <<products, productsRef, prompt, generatedImage, isLoading,
                   isInitialGeneration, store, pending, saveTimers, promptTimers, nResets,
                   nRequests, itemPending, nSourceRequests, ghost, progress>>
    /\ Memo(FALSE)

\* handleGenerateRoom after its await.
roomSettles(r) ==
  LET res == generateSourceImage(r) IN
    /\ roomPending > 0
    /\ IF res.threw
       THEN /\ error' = "Error generating room: " \o res.message
            /\ UNCHANGED roomImage
       ELSE /\ roomImage' = res.image
            /\ UNCHANGED error
    /\ isGeneratingRoom' = FALSE
    /\ roomPending' = roomPending - 1
    /\ UNCHANGED <<products, productsRef, prompt, generatedImage, isLoading,
                   isInitialGeneration, store, pending, saveTimers, promptTimers, nResets,
                   nRequests, itemPending, nSourceRequests, ghost, progress>>
    /\ Memo(FALSE)

\* The textarea of PromptInput is disabled while isLoading.
handlePromptChange(newPrompt) ==
  /\ ~isLoading
  /\ prompt' = newPrompt
  /\ error' = NoText
  /\ UNCHANGED <<roomImage, products, productsRef, generatedImage, isLoading,
                 isInitialGeneration, store, pending, saveTimers, promptTimers, nResets, nRequests, sources, ghost, progress>>
  /\ Memo(FALSE)

validProducts == SelectSeq(products, LAMBDA p : Present(p.image))

\* The three early returns of handleGeneration; NoText when validation passes.
ValidationError_PromptOnly ==
  IF isInitialGeneration /\ (~Present(roomImage) \/ Len(validProducts) = 0)
  THEN "Please enter a prompt to generate the design."
  ELSE IF ~isInitialGeneration /\ ~Present(generatedImage)
  THEN "An initial image must be generated before you can refine it."
  ELSE IF ~Truthy(prompt)
  THEN "Please enter a prompt to generate the design."
  ELSE NoText

ValidationError_SkipsBase ==
  IF isInitialGeneration /\ (~Present(roomImage) \/ Len(validProducts) = 0)
  THEN "Please provide a room image and at least one product image."
  ELSE IF ~Truthy(prompt)
  THEN "Please enter a prompt to generate the design."
  ELSE NoText

ValidationError ==
  IF isInitialGeneration /\ (~Present(roomImage) \/ Len(validProducts) = 0)
  THEN "Please provide a room image and at least one product image."
  ELSE IF ~isInitialGeneration /\ ~Present(generatedImage)
  THEN "An initial image must be generated before you can refine it."
  ELSE IF ~Truthy(prompt)
  THEN "Please enter a prompt to generate the design."
  ELSE NoText

\* The argument of generateVisual, built when handleGeneration is called.
VisualParams ==
  [prompt |-> prompt,
   roomImage |-> IF isInitialGeneration THEN roomImage ELSE Null,
   productImages |-> IF isInitialGeneration
                     THEN SeqMap(LAMBDA p : p.image, validProducts) ELSE <<>>,
   baseImage |-> IF isInitialGeneration THEN Null ELSE generatedImage]

handleGeneration_KeepsError ==
  /\ IF Truthy(ValidationError)
     THEN /\ error' = ValidationError
          /\ UNCHANGED <<isLoading, pending, nRequests, progress>>
     ELSE /\ nRequests' = nRequests + 1
          /\ showLoadingProgress' = TRUE
          /\ loadingProgress' = 0
          /\ loadingStatus' = "Initializing..."
          /\ statusIndex' = Append(statusIndex, 0)
          /\ UNCHANGED hideTimers
          /\ isLoading' = TRUE
          /\ UNCHANGED error
          /\ pending' = Append(pending, [params |-> VisualParams, cs |-> currentState,
                                          ci |-> hgIndex, preReset |-> FALSE])
  /\ UNCHANGED <<roomImage, products, productsRef, prompt, generatedImage,
                 isInitialGeneration, store, hgIndex, saveTimers, promptTimers, nResets,
                 sources, ghost>>

\* handleGeneration up to its await: a validation error, or the request is sent.
\* The closure that will run after the await keeps the saveToHistory of the
\* render that created this handleGeneration (cs, ci).
handleGeneration ==
  /\ IF Truthy(ValidationError)
     THEN /\ error' = ValidationError
          /\ UNCHANGED <<isLoading, pending, nRequests, progress>>
     ELSE /\ nRequests' = nRequests + 1
          /\ showLoadingProgress' = TRUE
          /\ loadingProgress' = 0
          /\ loadingStatus' = "Initializing..."
          /\ statusIndex' = Append(statusIndex, 0)
          /\ UNCHANGED hideTimers
          /\ isLoading' = TRUE
          /\ error' = NoText
          /\ pending' = Append(pending, [params |-> VisualParams, cs |-> currentState,
                                          ci |-> hgIndex, preReset |-> FALSE])
  /\ UNCHANGED <<roomImage, products, productsRef, prompt, generatedImage,
                 isInitialGeneration, store, hgIndex, saveTimers, promptTimers, nResets,
                 sources, ghost>>

\* PromptInput (handleSubmit, handleKeyDown): onSubmit is called only when it is
\* not loading and the prompt is not blank.
handleSubmit ==
  /\ ~isLoading
  /\ Truthy(prompt)
  /\ handleGeneration

\* if (result.image) {...}
GenerationSucceeds(r, result) ==
  /\ generatedImage' = DataUrl("image/png", result.image)
  /\ isInitialGeneration' = FALSE
  /\ prompt' = ""
  /\ saveTimers' = Append(saveTimers, [cs |-> r.cs, ci |-> r.ci, preReset |-> r.preReset,
                                       result |-> DataUrl("image/png", result.image),
                                       calls |-> result.calls])
  /\ UNCHANGED error

GenerationSoftFails_ClearsPrompt(result) ==
  /\ error' = IF Truthy(result.text) THEN result.text
              ELSE "Failed to generate image. The model may not have returned an image."
  /\ prompt' = ""
  /\ UNCHANGED <<generatedImage, isInitialGeneration, saveTimers>>

\* else {...}: no image in the result
GenerationSoftFails(result) ==
  /\ error' = IF Truthy(result.text) THEN result.text
              ELSE "Failed to generate image. The model may not have returned an image."
  /\ UNCHANGED <<generatedImage, isInitialGeneration, prompt, saveTimers>>

GenerationThrows_SetsMode(result) ==
  /\ error' = "Error: " \o result.message
  /\ isInitialGeneration' = FALSE
  /\ UNCHANGED <<generatedImage, prompt, saveTimers>>

\* catch (e) {...}
GenerationThrows(result) ==
  /\ error' = "Error: " \o result.message
  /\ UNCHANGED <<generatedImage, isInitialGeneration, prompt, saveTimers>>

\* handleGeneration after its await: generateVisual has settled for request r.
generationSettles(i, r1, r2) ==
    LET r == pending[i]
        result == generateVisual(r.params, r1, r2) IN
      /\ IF result.threw THEN GenerationThrows(result)
         ELSE IF Truthy(result.image) THEN GenerationSucceeds(r, result)
         ELSE GenerationSoftFails(result)
      /\ isLoading' = FALSE
      /\ pending' = RemoveAt(pending, i)
      /\ statusIndex' = RemoveAt(statusIndex, i)
      /\ loadingProgress' = 100
      /\ loadingStatus' = "Complete!"
      /\ hideTimers' = hideTimers + 1
      /\ UNCHANGED showLoadingProgress
      /\ run' = IF ~result.threw /\ Truthy(result.image)
                 THEN [run EXCEPT !.gens = IF run.gens >= 2 THEN 2 ELSE run.gens + 1,
                                  !.prev = generatedImage]
                 ELSE run
      /\ UNCHANGED <<roomImage, products, productsRef, store, promptTimers, nResets, nRequests,
                     sources, undoFrom>>
      /\ Memo(FALSE)

MarkPreReset(r) == [r EXCEPT !.preReset = TRUE]

ResetProducts_Keeps == products
\* setProducts([{ id: Date.now(), image: INITIAL_PRODUCT_IMAGE, isGenerating: false }])
ResetProducts == <<[id |-> FreshId, image |-> INITIAL_PRODUCT_IMAGE, isGenerating |-> FALSE]>>

resetExperience ==
  /\ nResets < MaxResets
  /\ nResets' = nResets + 1
  /\ clearHistory
  /\ roomImage' = INITIAL_ROOM_IMAGE
  /\ products' = ResetProducts
  /\ productsRef' = -1
  /\ generatedImage' = Null
  /\ isInitialGeneration' = TRUE
  /\ error' = NoText
  /\ isLoading' = FALSE
  /\ promptTimers' = promptTimers + 1
  /\ pending' = SeqMap(MarkPreReset, pending)
  /\ saveTimers' = SeqMap(MarkPreReset, saveTimers)
  /\ run' = NoRun
  /\ undoFrom' = NoUndo
  /\ UNCHANGED <<prompt, nRequests, sources, progress>>
  /\ Memo(TRUE)

progressTick_Releases(d) ==
  /\ pending # <<>>
  /\ loadingProgress' = IF loadingProgress >= 90 THEN loadingProgress
                        ELSE loadingProgress + d
  /\ isLoading' = (loadingProgress' < 90)
  /\ UNCHANGED <<roomImage, products, prompt, generatedImage, error, isInitialGeneration,
                 store, hgIndex, productsRef, pending, saveTimers, promptTimers,
                 nResets, nRequests, sources, ghost, loadingStatus, showLoadingProgress,
                 statusIndex, hideTimers>>

\* The values Math.random() * 15 takes, in whole units: 0 <= increment < 15.
RandomIncrements == 0..14

\* A tick of progressInterval of simulateProgress, which runs from the call of
\* simulateProgress until its callback settles:
\* setLoadingProgress(prev => prev >= 90 ? prev : prev + Math.random() * 15)
progressTick(d) ==
  /\ pending # <<>>
  /\ loadingProgress' = IF loadingProgress >= 90 THEN loadingProgress
                        ELSE loadingProgress + d
  /\ UNCHANGED <<session, store, hgIndex, productsRef, pending, saveTimers, promptTimers,
                 nResets, nRequests, sources, ghost, loadingStatus, showLoadingProgress,
                 statusIndex, hideTimers>>

\* const statusMessages = [...]
statusMessages ==
  <<"Analyzing your images...", "Understanding your prompt...",
    "Generating design concepts...", "Rendering your vision...",
    "Adding final touches...", "Almost ready...">>

MaxStatusTicks == 8    \* ticks of statusInterval during one request

statusTick_Wraps(i) ==
  /\ statusIndex[i] < MaxStatusTicks
  /\ loadingStatus' = statusMessages[(statusIndex[i] % Len(statusMessages)) + 1]
  /\ statusIndex' = [statusIndex EXCEPT ![i] = @ + 1]
  /\ UNCHANGED <<session, store, hgIndex, productsRef, pending, saveTimers, promptTimers,
                 nResets, nRequests, sources, ghost, loadingProgress, showLoadingProgress,
                 hideTimers>>

\* A tick of statusInterval of the i-th outstanding simulateProgress call:
\* setLoadingStatus(statusMessages[statusIndex] || 'Finalizing...'); statusIndex++
\* (statusIndex counts from 0, sequences here from 1).
statusTick(i) ==
  /\ statusIndex[i] < MaxStatusTicks
  /\ loadingStatus' = IF statusIndex[i] + 1 \in DOMAIN statusMessages
                      THEN statusMessages[statusIndex[i] + 1]
                      ELSE "Finalizing..."
  /\ statusIndex' = [statusIndex EXCEPT ![i] = @ + 1]
  /\ UNCHANGED <<session, store, hgIndex, productsRef, pending, saveTimers, promptTimers,
                 nResets, nRequests, sources, ghost, loadingProgress, showLoadingProgress,
                 hideTimers>>

\* setTimeout(() => setShowLoadingProgress(false), 500) of the finally of
\* simulateProgress
hideTimerFires ==
  /\ hideTimers > 0
  /\ hideTimers' = hideTimers - 1
  /\ showLoadingProgress' = FALSE
  /\ UNCHANGED <<session, store, hgIndex, productsRef, pending, saveTimers, promptTimers,
                 nResets, nRequests, sources, ghost, loadingProgress, loadingStatus,
                 statusIndex>>

\* setTimeout(() => setPrompt(''), 0) of resetExperience
promptTimerFires ==
  /\ promptTimers > 0
  /\ promptTimers' = promptTimers - 1
  /\ prompt' = ""
  /\ UNCHANGED <<roomImage, products, productsRef, generatedImage, isLoading, error,
                 isInitialGeneration, store, pending, saveTimers, nResets, nRequests, sources, ghost, progress>>
  /\ Memo(FALSE)

\* ------------------------------------------------------------ specification
\* A submission is within the bounds of a behaviour: it is refused by the
\* validation, or the numbers of requests sent and outstanding allow one more.
Within(maxRequests, maxPending) ==
  \/ Truthy(ValidationError)
  \/ nRequests < maxRequests /\ Len(pending) + Len(saveTimers) < maxPending

\* The service answers the history claims need: an image from either stage, a
\* text-only answer, an exception.
CoreResponses ==
  {Throws("503"), Returns(<<TextPart("cannot comply")>>)}
  \cup {Returns(<<ImagePart(d)>>) : d \in GenData}

Next ==
  \/ \E p \in Prompts \cup {""} : handlePromptChange(p)
  \/ \E img \in Uploads : setRoomImage(img)
  \/ \E id \in IdsOf(products), img \in Uploads : handleUpdateProductImage(id, img)
  \/ Within(MaxRequests, MaxPending) /\ handleSubmit
  \/ \E i \in DOMAIN pending, r1 \in CoreResponses :
       \E r2 \in IF Stage1Succeeds(r1) THEN {r1} ELSE CoreResponses :
         generationSettles(i, r1, r2)
  \/ saveTimerFires
  \/ undo
  \/ redo
  \/ onClearHistory

Spec == Init /\ [][Next]_vars

\* The same operations with "start over": the service answers with one image,
\* a text-only answer or an exception.
ResetResponses ==
  {Throws("503"), Returns(<<TextPart("cannot comply")>>), Returns(<<ImagePart("g1")>>)}

NextReset ==
  \/ \E p \in Prompts \cup {""} : handlePromptChange(p)
  \/ \E img \in Uploads : setRoomImage(img)
  \/ \E id \in IdsOf(products), img \in Uploads : handleUpdateProductImage(id, img)
  \/ Within(MaxRequestsReset, MaxPendingReset) /\ handleSubmit
  \/ \E i \in DOMAIN pending, r1 \in ResetResponses :
       \E r2 \in IF Stage1Succeeds(r1) THEN {r1} ELSE ResetResponses :
         generationSettles(i, r1, r2)
  \/ saveTimerFires
  \/ undo
  \/ redo
  \/ onClearHistory
  \/ resetExperience
  \/ promptTimerFires

SpecReset == Init /\ [][NextReset]_vars

\* handleGeneration as a function of the values its closure holds: every
\* combination of scene, item, prompt, composite and mode, then the call and
\* what follows it.
InitValidation ==
  /\ roomImage \in {Null} \cup Uploads
  /\ products \in {<<[id |-> 1, image |-> img, isGenerating |-> FALSE]>> :
                      img \in {Null} \cup Uploads}
  /\ prompt \in {""} \cup Prompts
  /\ generatedImage \in {Null} \cup {DataUrl("image/png", d) : d \in GenData}
  /\ isInitialGeneration \in BOOLEAN
  /\ isLoading = FALSE
  /\ error = NoText
  /\ history = <<>>
  /\ currentIndex = -1
  /\ hgIndex = -1
  /\ productsRef = -1
  /\ pending = <<>>
  /\ saveTimers = <<>>
  /\ promptTimers = 0
  /\ nResets = 0
  /\ nRequests = 0
  /\ isGeneratingRoom = FALSE
  /\ itemPending = <<>>
  /\ roomPending = 0
  /\ nSourceRequests = 0
  /\ run = NoRun
  /\ undoFrom = NoUndo
  /\ loadingProgress = 0
  /\ loadingStatus = "Initializing..."
  /\ showLoadingProgress = FALSE
  /\ statusIndex = <<>>
  /\ hideTimers = 0

NextValidation ==
  \/ Within(MaxRequestsReset, MaxPending) /\ ~isLoading /\ handleGeneration
  \/ \E i \in DOMAIN pending, r1 \in CoreResponses :
       \E r2 \in IF Stage1Succeeds(r1) THEN {r1} ELSE CoreResponses :
         generationSettles(i, r1, r2)
  \/ saveTimerFires

SpecValidation == InitValidation /\ [][NextValidation]_vars

\* The generation of item and scene images, with items added and removed.
MaxSourceRequests == 2 \* generateSourceImage calls in one behaviour

NextItems ==
  \/ \E img \in Uploads : setRoomImage(img)
  \/ \E id \in IdsOf(products), img \in Uploads : handleUpdateProductImage(id, img)
  \/ handleAddProduct
  \/ \E id \in IdsOf(products) : handleRemoveProduct(id)
  \/ \E i \in DOMAIN products, g \in GenPrompts :
       nSourceRequests < MaxSourceRequests /\ productGenerateClick(i, g)
  \/ \E k \in DOMAIN itemPending, r \in SourceResponses : productSettles(k, r)
  \/ \E g \in GenPrompts : nSourceRequests < MaxSourceRequests /\ roomGenerateClick(g)
  \/ \E r \in SourceResponses : roomSettles(r)

SpecItems == Init /\ [][NextItems]_vars

\* Composite generation and history together with the generation of item and
\* scene images, for a single item.
MaxRequestsBusy == 3   \* composite requests in one behaviour of SpecBusy

NextBusy ==
  \/ \E p \in Prompts : handlePromptChange(p)
  \/ \E img \in Uploads : roomUpload(img)
  \/ \E id \in IdsOf(products), img \in Uploads : productUpload(id, img)
  \/ \E i \in DOMAIN products, g \in GenPrompts :
       nSourceRequests < MaxSourceRequests /\ productGenerateClick(i, g)
  \/ \E k \in DOMAIN itemPending, r \in SourceResponses : productSettles(k, r)
  \/ \E g \in GenPrompts : nSourceRequests < MaxSourceRequests /\ roomGenerateClick(g)
  \/ \E r \in SourceResponses : roomSettles(r)
  \/ Within(MaxRequestsBusy, MaxPending) /\ handleSubmit
  \/ \E i \in DOMAIN pending, r1 \in ResetResponses :
       \E r2 \in IF Stage1Succeeds(r1) THEN {r1} ELSE ResetResponses :
         generationSettles(i, r1, r2)
  \/ saveTimerFires
  \/ undo
  \/ redo

SpecBusy == Init /\ [][NextBusy]_vars

\* handleGenerateProduct and handleGenerateRoom as functions of their argument:
\* called with any prompt, the empty one included, whatever the buttons allow.
NextHandlers ==
  \/ \E img \in Uploads : setRoomImage(img)
  \/ \E id \in IdsOf(products), img \in Uploads : handleUpdateProductImage(id, img)
  \/ handleAddProduct
  \/ \E i \in DOMAIN products, g \in GenPrompts \cup {""} :
       /\ Truthy(g) => nSourceRequests < MaxSourceRequests
       /\ handleGenerateProduct(products[i].id, g, i - 1)
  \/ \E k \in DOMAIN itemPending, r \in SourceResponses : productSettles(k, r)
  \/ \E g \in GenPrompts \cup {""} :
       /\ Truthy(g) => nSourceRequests < MaxSourceRequests
       /\ handleGenerateRoom(g)
  \/ \E r \in SourceResponses : roomSettles(r)

SpecHandlers == Init /\ [][NextHandlers]_vars

\* generateVisual as a function of its argument and of the service's answers:
\* handleGeneration is called in every session a user can be in, with one or
\* two products, with and without images, and the service gives any answer.
RequestImages == {DataUrl("image/jpeg", "u1"), DataUrl("image/png", "u2")}
MaxRequestsService == 2   \* composite requests in one behaviour of SpecRequest

InitRequest ==
  /\ roomImage \in {Null} \cup RequestImages
  /\ \E n \in 1..MaxProducts :
       products \in [1..n -> {[id |-> k, image |-> img, isGenerating |-> FALSE] :
                                k \in 1..n, img \in {Null} \cup RequestImages}]
  /\ \A k \in DOMAIN products : products[k].id = k
  /\ prompt \in {""} \cup Prompts
  /\ generatedImage \in {Null, DataUrl("image/png", "g1")}
  /\ isInitialGeneration = ~Present(generatedImage)
  /\ isLoading = FALSE
  /\ error = NoText
  /\ history = <<>>
  /\ currentIndex = -1
  /\ hgIndex = -1
  /\ productsRef = -1
  /\ pending = <<>>
  /\ saveTimers = <<>>
  /\ promptTimers = 0
  /\ nResets = 0
  /\ nRequests = 0
  /\ isGeneratingRoom = FALSE
  /\ itemPending = <<>>
  /\ roomPending = 0
  /\ nSourceRequests = 0
  /\ run = NoRun
  /\ undoFrom = NoUndo
  /\ loadingProgress = 0
  /\ loadingStatus = "Initializing..."
  /\ showLoadingProgress = FALSE
  /\ statusIndex = <<>>
  /\ hideTimers = 0

NextRequest ==
  \/ Within(MaxRequestsService, MaxPending) /\ ~isLoading /\ handleGeneration
  \/ \E i \in DOMAIN pending, r1 \in Responses :
       \E r2 \in IF Stage1Succeeds(r1) THEN {r1} ELSE Responses :
         generationSettles(i, r1, r2)
  \/ saveTimerFires

SpecRequest == InitRequest /\ [][NextRequest]_vars

\* "Start over" while product, room or composite requests are outstanding.
MaxRequestsSources == 1   \* composite requests in one behaviour of SpecResetSources

NextResetSources ==
  \/ \E p \in Prompts : handlePromptChange(p)
  \/ \E img \in Uploads : roomUpload(img)
  \/ \E id \in IdsOf(products), img \in Uploads : productUpload(id, img)
  \/ \E i \in DOMAIN products, g \in GenPrompts :
       nSourceRequests < MaxSourceRequests /\ productGenerateClick(i, g)
  \/ \E k \in DOMAIN itemPending, r \in SourceResponses : productSettles(k, r)
  \/ \E g \in GenPrompts : nSourceRequests < MaxSourceRequests /\ roomGenerateClick(g)
  \/ \E r \in SourceResponses : roomSettles(r)
  \/ Within(MaxRequestsSources, MaxPending) /\ handleSubmit
  \/ \E i \in DOMAIN pending, r1 \in ResetResponses :
       \E r2 \in IF Stage1Succeeds(r1) THEN {r1} ELSE ResetResponses :
         generationSettles(i, r1, r2)
  \/ saveTimerFires
  \/ resetExperience
  \/ promptTimerFires

SpecResetSources == Init /\ [][NextResetSources]_vars

\* The progress display during composite generation.
MaxRequestsProgress == 2   \* composite requests in one behaviour of SpecProgress

NextProgress ==
  \/ \E p \in Prompts : handlePromptChange(p)
  \/ \E img \in Uploads : setRoomImage(img)
  \/ \E id \in IdsOf(products), img \in Uploads : handleUpdateProductImage(id, img)
  \/ Within(MaxRequestsProgress, MaxPending) /\ handleSubmit
  \/ \E d \in RandomIncrements : progressTick(d)
  \/ \E i \in DOMAIN statusIndex : statusTick(i)
  \/ hideTimerFires
  \/ \E i \in DOMAIN pending, r1 \in ResetResponses :
       \E r2 \in IF Stage1Succeeds(r1) THEN {r1} ELSE ResetResponses :
         generationSettles(i, r1, r2)
  \/ saveTimerFires

SpecProgress == Init /\ [][NextProgress]_vars

TypeOK ==
  /\ Len(history) <= maxHistorySize
  /\ currentIndex \in -1..(maxHistorySize - 1)


\* ------------------------------------------------------------------ claims
\* A step that runs a deferred saveToHistory, and one that appends a snapshot.
SaveStep == Len(saveTimers') < Len(saveTimers)
CommitStep == SaveStep /\ Present(Head(saveTimers).cs.generatedImage)
ResetStep == nResets' = nResets + 1
Last(s) == s[Len(s)]
LastK(s) == IF Len(s) > maxHistorySize
            THEN SubSeq(s, Len(s) - maxHistorySize + 1, Len(s)) ELSE s

\* C1: the history never holds more than K entries, and after a run of more
\* than K commits with no undo in between it holds exactly the K most recent
\* commits, in commit order.
C1_KMostRecent ==
  /\ Len(history) <= maxHistorySize
  /\ run.n > maxHistorySize => history = run.latest
\* the length bound alone
C1_LengthBound == Len(history) <= maxHistorySize

\* C2: currentIndex is -1 exactly when the history is empty, and otherwise
\* 0 <= currentIndex < history.length.
C2_CursorInRange ==
  /\ (currentIndex = -1) <=> (history = <<>>)
  /\ history # <<>> => (0 <= currentIndex /\ currentIndex < Len(history))
C2_Witness == Len(history) = maxHistorySize /\ currentIndex = 0 /\ saveTimers # <<>>

\* C3: a commit issued while the cursor is not at the tail discards every entry
\* after the cursor before it appends ([A,B,C] with the cursor at B and a commit
\* of D give [A,B,D]).
C3_BranchTruncation ==
  [][(CommitStep /\ 0 <= currentIndex /\ currentIndex < Len(history) - 1)
       => history' = Append(SubSeq(history, 1, currentIndex + 1), Last(history'))]_vars

\* C4: undo followed by redo, with no commit or clear in between, puts the
\* cursor back, restores the snapshot that was current before the undo and
\* leaves the entries unchanged.
C4_UndoRedoRoundTrip ==
  [][(undoFrom.valid /\ undoFrom'.redone)
       => /\ currentIndex' = undoFrom.cursor
          /\ history' = undoFrom.entries
          /\ currentState' = [f \in DOMAIN currentState |->
                                At(undoFrom.entries, undoFrom.cursor)[f]]]_vars
C4_Witness == undoFrom.redone /\ Len(history) = maxHistorySize /\ currentIndex = 1

\* C5: canUndo is false exactly when currentIndex <= 0, canRedo is false exactly
\* when currentIndex >= length - 1, hasHistory is true exactly when there are
\* entries; on the empty store both capabilities are false.
C5_Capabilities ==
  /\ ~canUndo <=> currentIndex <= 0
  /\ ~canRedo <=> currentIndex >= Len(history) - 1
  /\ hasHistory <=> history # <<>>
  /\ history = <<>> => ~canUndo /\ ~canRedo
C5_Witness == Len(history) = maxHistorySize /\ canUndo /\ canRedo

\* C6: the snapshot committed after a successful composite generation records
\* the post-success session: the image just returned, an empty prompt and
\* REFINEMENT mode.
C6_CommitRecordsPostSuccess ==
  [][CommitStep
       => /\ Last(history').generatedImage = Head(saveTimers).result
          /\ Last(history').prompt = ""
          /\ ~Last(history').isInitialGeneration]_vars

\* C7: a composite result with an image becomes generatedImage, switches the
\* mode to REFINEMENT, clears the prompt, and its deferred commit appends a new
\* snapshot, for the first composite of a session as for refinements.
C7_SuccessCommits ==
  [][/\ Len(saveTimers') > Len(saveTimers)
          => /\ generatedImage' = Last(saveTimers').result
             /\ ~isInitialGeneration'
             /\ prompt' = ""
     /\ SaveStep
          => /\ history' # <<>>
             /\ currentIndex' = Len(history') - 1
             /\ (history' # history \/ Len(history) = maxHistorySize)]_vars

\* C8: resetExperience leaves INITIAL mode, exactly one product with no image
\* and not generating, no composite, and an empty history with cursor -1, also
\* with requests outstanding.
C8_ResetPostState ==
  [][ResetStep
       => /\ isInitialGeneration'
          /\ Len(products') = 1
          /\ ~Present(products'[1].image)
          /\ ~products'[1].isGenerating
          /\ ~Present(generatedImage')
          /\ history' = <<>>
          /\ currentIndex' = -1]_vars
C8_Witness == /\ nResets > 0 /\ pending # <<>> /\ pending[1].preReset
              /\ history = <<>> /\ isInitialGeneration

\* C9: after a reset no snapshot built from the session as it was before the
\* reset enters the history.
C9_NoPreResetSnapshot ==
  [][CommitStep => ~Head(saveTimers).preReset]_vars

\* C10: REFINEMENT mode implies that a composite image is present.
C10_RefinementHasComposite == ~isInitialGeneration => Present(generatedImage)
C10_Witness == nResets > 0 /\ ~isInitialGeneration /\ ~Present(roomImage)

\* A step in which a composite result with an image is applied.
SuccessStep == Len(saveTimers') > Len(saveTimers)

\* C11: the mode changes only from INITIAL to REFINEMENT by a successful
\* composite generation and from REFINEMENT to INITIAL by a reset; undo, redo,
\* clear, validation failures, soft failures and exceptions leave it alone.
C11_ModeTransitions ==
  [][isInitialGeneration' # isInitialGeneration
       => \/ SuccessStep /\ isInitialGeneration /\ ~isInitialGeneration'
          \/ ResetStep /\ ~isInitialGeneration /\ isInitialGeneration']_vars

\* The session fields other than the current error and the busy flag.
inputs == <<roomImage, products, prompt, generatedImage, isInitialGeneration>>

\* C12: handleGeneration in INITIAL mode without a scene image, or without an
\* item that has an image, reports the missing-inputs error (it names the room
\* image), sends no request, sets no busy flag and changes no other field.
C12_MissingInputs ==
  [][(handleGeneration /\ isInitialGeneration
        /\ (~Present(roomImage) \/ Len(validProducts) = 0))
       => /\ error' = "Please provide a room image and at least one product image."
          /\ nRequests' = nRequests /\ pending' = pending
          /\ isLoading' = isLoading
          /\ UNCHANGED inputs]_vars
C12_Witness ==
  /\ error = "Please provide a room image and at least one product image."
  /\ isInitialGeneration /\ ~Present(roomImage) /\ Len(validProducts) = 1
  /\ ~isLoading /\ pending = <<>> /\ nRequests = 0

\* C13: every validation failure (missing inputs in INITIAL mode, no composite
\* in REFINEMENT mode, empty prompt) is reported without a request to the
\* service, and the missing-inputs and the missing-prompt message differ.
C13_ValidationWithoutCall ==
  [][(handleGeneration
        /\ \/ isInitialGeneration /\ (~Present(roomImage) \/ Len(validProducts) = 0)
           \/ ~isInitialGeneration /\ ~Present(generatedImage)
           \/ ~Truthy(prompt))
       => /\ Truthy(error')
          /\ nRequests' = nRequests /\ pending' = pending /\ ~isLoading'
          /\ (isInitialGeneration /\ (~Present(roomImage) \/ Len(validProducts) = 0))
               => error' # "Please enter a prompt to generate the design."
          /\ (~Truthy(prompt) /\ Present(roomImage) /\ Len(validProducts) > 0
                /\ Present(generatedImage))
               => error' = "Please enter a prompt to generate the design."]_vars
C13_Witness ==
  /\ error = "Please enter a prompt to generate the design."
  /\ ~Truthy(prompt) /\ nRequests = 0 /\ pending = <<>>
C13_WitnessNoBase ==
  /\ error = "An initial image must be generated before you can refine it."
  /\ ~isInitialGeneration /\ ~Present(generatedImage) /\ nRequests = 0

C15_NoCrossContamination ==
  [][/\ \A i \in DOMAIN products, g \in GenPrompts :
          productGenerateClick(i, g)
            => /\ Len(products') = Len(products)
               /\ products'[i] = [products[i] EXCEPT !.isGenerating = TRUE]
               /\ \A j \in DOMAIN products : j # i => products'[j] = products[j]
     /\ \A k \in DOMAIN itemPending, r \in SourceResponses :
          productSettles(k, r)
            => /\ Len(products') = Len(products)
               /\ \A j \in DOMAIN products :
                    IF products[j].id = itemPending[k].id
                    THEN /\ ~products'[j].isGenerating
                         /\ products'[j].image =
                              IF generateSourceImage(r).threw THEN products[j].image
                              ELSE generateSourceImage(r).image
                         /\ products'[j].id = products[j].id
                    ELSE products'[j] = products[j]]_vars
C15_Witness ==
  /\ Len(products) = 2 /\ nSourceRequests = 2 /\ Len(itemPending) = 1
  /\ itemPending[1].id = products[1].id /\ products[1].isGenerating
  /\ ~products[2].isGenerating /\ products[2].image = DataUrl("image/png", "s1")

\* C16: a busy flag that is set has a request outstanding that will clear it:
\* for each product's isGenerating, for isGeneratingRoom and for isLoading.
C16_BusyHasRequest ==
  /\ \A i \in DOMAIN products :
       products[i].isGenerating
         => \E k \in DOMAIN itemPending : itemPending[k].id = products[i].id
  /\ isGeneratingRoom => roomPending > 0
  /\ isLoading => pending # <<>>

\* The fields of the session that a snapshot holds, read from snapshot e.
Applied(e) == [f \in DOMAIN currentState |-> e[f]]

\* C17: undo with the cursor above 0 moves the cursor down by one, redo with
\* the cursor below the last entry moves it up by one; either applies the
\* snapshot at the new cursor to the session (composite image, prompt, room
\* image, products, mode), clears the error and leaves the entries unchanged.
C17_UndoRedoApply ==
  [][/\ (undo /\ currentIndex > 0)
          => /\ currentIndex' = currentIndex - 1
             /\ currentState' = Applied(At(history, currentIndex - 1))
             /\ error' = NoText
             /\ history' = history
     /\ (redo /\ currentIndex < Len(history) - 1)
          => /\ currentIndex' = currentIndex + 1
             /\ currentState' = Applied(At(history, currentIndex + 1))
             /\ error' = NoText
             /\ history' = history]_vars
C17_Witness ==
  /\ undoFrom.last = "undo" /\ undoFrom.valid
  /\ Len(undoFrom.entries) = maxHistorySize /\ undoFrom.cursor = maxHistorySize - 1
  /\ currentIndex = undoFrom.cursor - 1 /\ history = undoFrom.entries
  /\ currentState = Applied(At(history, currentIndex))

\* C18: undo with the cursor at 0 or below, and redo with the cursor on the
\* last entry or beyond (the empty store included), change neither the entries,
\* nor the cursor, nor any field of the session.
C18_RefusedIsNoOp ==
  [][/\ (undo /\ currentIndex <= 0) => UNCHANGED <<history, currentIndex, session>>
     /\ (redo /\ currentIndex >= Len(history) - 1)
          => UNCHANGED <<history, currentIndex, session>>]_vars
C18_Witness ==
  /\ undoFrom.last = "undo refused" /\ currentIndex = 0 /\ Len(history) >= 2
  /\ currentState # Applied(At(history, 0))

\* C19: clear empties the entries and sets the cursor to -1 whatever the store
\* held, changes no field of the session, and a clear that follows a clear
\* leaves the store as the first one left it.
C19_ClearIdempotent ==
  [][/\ onClearHistory
          => /\ history' = <<>> /\ currentIndex' = -1
             /\ UNCHANGED session
     /\ (onClearHistory /\ undoFrom.last \in {"clear", "clear again"})
          => UNCHANGED <<history, currentIndex, session>>]_vars
C19_Witness ==
  /\ undoFrom.last = "clear again" /\ history = <<>> /\ currentIndex = -1
  /\ Present(generatedImage) /\ ~isInitialGeneration

\* C20: after two or more composites generated in a row with no undo, redo or
\* clear in between, and once their deferred saves have run, an undo shows the
\* composite that was generated immediately before the one on display.
C20_UndoShowsPrevious ==
  [][(undo /\ currentIndex > 0 /\ run.gens = 2 /\ saveTimers = <<>> /\ pending = <<>>)
       => generatedImage' = run.prev]_vars

\* C24: while a composite request is outstanding the progress value is never
\* above 90, whatever the ticks and their increments.
C24_ProgressAtMost90 == pending # <<>> => loadingProgress <= 90

\* C21: a composite generation that ends with text but no image (soft failure)
\* or with an exception of the service (service error) leaves the composite
\* image, the mode, the prompt, the room image, the products and the history
\* unchanged and sets the error: to the returned text, or a generic sentence,
\* for the soft failure; to the prefixed message for the exception.
C21_FailureLeavesState ==
  [][\A i \in DOMAIN pending, r1 \in CoreResponses, r2 \in CoreResponses :
       LET result == generateVisual(pending[i].params, r1, r2) IN
         (generationSettles(i, r1, r2) /\ (result.threw \/ ~Truthy(result.image)))
           => /\ UNCHANGED <<generatedImage, isInitialGeneration, prompt, roomImage,
                             products, history, currentIndex, saveTimers>>
              /\ error' = IF result.threw THEN "Error: " \o result.message
                          ELSE IF Truthy(result.text) THEN result.text
                          ELSE "Failed to generate image. The model may not have returned an image."
              /\ Truthy(error')]_vars
C21_Witness ==
  /\ error = "cannot comply" /\ ~isLoading /\ pending = <<>>
  /\ ~isInitialGeneration /\ Truthy(prompt) /\ Len(history) = 2

\* C22: handleGenerateProduct called with an empty prompt sets an error that
\* names the product by its position, sends no request and sets no busy flag;
\* handleGenerateRoom called with an empty prompt does the same for the room.
C22_EmptyPromptRefused ==
  [][/\ \A i \in DOMAIN products :
          handleGenerateProduct(products[i].id, "", i - 1)
            => /\ error' = "Please enter a prompt to generate Product " \o ToString(i) \o "."
               /\ UNCHANGED <<products, roomImage, isGeneratingRoom, itemPending, roomPending,
                              nSourceRequests>>
     /\ handleGenerateRoom("")
          => /\ error' = "Please enter a prompt to generate the room image."
             /\ UNCHANGED <<products, roomImage, isGeneratingRoom, itemPending, roomPending,
                            nSourceRequests>>]_vars
C22_Witness ==
  /\ error = "Please enter a prompt to generate Product 2."
  /\ Len(products) = 2 /\ ~products[2].isGenerating
  /\ products[1].isGenerating /\ Len(itemPending) = 1 /\ nSourceRequests = 1

\* The images of the products, by position.
Images(ps) == [j \in DOMAIN ps |-> ps[j].image]

\* C23: when a product or room image request fails, the image that was there
\* stays and the error names the slot; whatever the outcome, the busy flag of
\* the product (of the room) is false once the request has settled.
C23_FailureKeepsImage ==
  [][/\ \A k \in DOMAIN itemPending, r \in SourceResponses :
          productSettles(k, r)
            => /\ generateSourceImage(r).threw
                    => /\ Images(products') = Images(products)
                       /\ roomImage' = roomImage
                       /\ error' = "Error generating product "
                                      \o ToString(itemPending[k].index + 1) \o ": "
                                      \o generateSourceImage(r).message
               /\ \A j \in DOMAIN products' :
                    products'[j].id = itemPending[k].id => ~products'[j].isGenerating
     /\ \A r \in SourceResponses :
          roomSettles(r)
            => /\ generateSourceImage(r).threw
                    => /\ roomImage' = roomImage
                       /\ Images(products') = Images(products)
                       /\ error' = "Error generating room: " \o generateSourceImage(r).message
               /\ ~isGeneratingRoom']_vars
C23_Witness ==
  /\ error = "Error generating product 1: Gemini API Error: 503"
  /\ products[1].image \in Uploads /\ ~products[1].isGenerating
  /\ itemPending = <<>> /\ nSourceRequests = 1

\* C25: in REFINEMENT mode no step other than an undo or a redo (or a reset)
\* changes the room image or the image of a product, the completions of
\* product and room image requests sent in INITIAL mode included.
C25_RefinementLocksInputs ==
  [][(~isInitialGeneration /\ ~undo /\ ~redo)
       => /\ roomImage' = roomImage
          /\ Images(products') = Images(products)]_vars

\* C26: no two outstanding product image requests are for the same product id:
\* a second request for an id is sent only after the first has settled, so no
\* request clears the busy flag of a product that has another request in flight.
C26_OneRequestPerItem ==
  \A k, l \in DOMAIN itemPending : k # l => itemPending[k].id # itemPending[l].id
C26_Witness ==
  /\ nSourceRequests = 2 /\ Len(itemPending) = 1 /\ roomPending = 0 /\ ~isGeneratingRoom
  /\ itemPending[1].id = products[1].id /\ products[1].isGenerating
  /\ products[1].image = DataUrl("image/png", "s1")

\* The answer has no part with image data.
NoImagePart(r) == \A k \in DOMAIN r.parts : ~IsImagePart(r.parts[k])

\* C27: generateVisual makes one or two calls and never repeats one. The
\* text-only call is made exactly when the multimodal call threw or returned no
\* image part; an image of the multimodal call is the result; otherwise the
\* result is what the text-only call gives, whatever the multimodal call
\* answered, and a text of the multimodal call is dropped.
C27_FallbackProtocol ==
  [][\A i \in DOMAIN pending, r1 \in Responses, r2 \in Responses :
       LET p == pending[i].params
           result == generateVisual(p, r1, r2) IN
         generationSettles(i, r1, r2)
           => /\ result.calls \in {1, 2}
              /\ result.calls = 2 <=> (r1.throws \/ NoImagePart(r1))
              /\ result.calls = 1
                   => /\ ~result.threw
                      /\ \E k \in DOMAIN r1.parts :
                           /\ IsImagePart(r1.parts[k])
                           /\ result.image = r1.parts[k].inlineData.data
                      /\ \A q2 \in Responses : generateVisual(p, r1, q2) = result
              /\ result.calls = 2
                   => /\ \A q1 \in Responses :
                           (q1.throws \/ NoImagePart(q1)) => generateVisual(p, q1, r2) = result
                      /\ r2.throws => result.threw
                      /\ (~r2.throws /\ ~NoImagePart(r2))
                           => /\ ~result.threw
                              /\ \E k \in DOMAIN r2.parts :
                                   /\ IsImagePart(r2.parts[k])
                                   /\ result.image = r2.parts[k].inlineData.data
                      /\ (~r2.throws /\ NoImagePart(r2) /\ r2.parts # <<>>)
                           => /\ ~result.threw /\ ~Truthy(result.image)
                              /\ result.text = r2.parts[Len(r2.parts)].text]_vars
C27_Witness ==
  /\ saveTimers # <<>> /\ saveTimers[1].calls = 2
  /\ generatedImage = saveTimers[1].result /\ ~isLoading /\ error = NoText

\* C28: when the text-only call returns neither image nor text, the generation
\* fails with a message that carries the block reason if the service gave one,
\* and otherwise ends as a soft failure with the no-content message; either way
\* the composite image and the mode are unchanged and isLoading ends false.
C28_NoContent ==
  [][\A i \in DOMAIN pending, r1 \in Responses, r2 \in Responses :
       (/\ generationSettles(i, r1, r2)
        /\ r1.throws \/ NoImagePart(r1)
        /\ ~r2.throws /\ r2.parts = <<>>)
         => /\ error' = IF r2.blockReason # NoText
                        THEN "Error: Gemini API Error: Request was blocked: "
                               \o r2.blockReason \o " - " \o r2.blockReasonMessage
                        ELSE "The model did not return any content. Try adjusting your prompt."
            /\ UNCHANGED <<generatedImage, isInitialGeneration>>
            /\ ~isLoading']_vars
C28_Witness ==
  /\ error = "Error: Gemini API Error: Request was blocked: SAFETY - blocked"
  /\ ~isLoading /\ pending = <<>> /\ nRequests = 1

\* The parts of the product images that are present, in the order of the products.
RECURSIVE ItemParts(_)
ItemParts(ps) ==
  IF ps = <<>> THEN <<>>
  ELSE (IF Head(ps).image # Null THEN <<dataUrlToGeminiPart(Head(ps).image)>> ELSE <<>>)
       \o ItemParts(Tail(ps))

\* C29: the parts of the multimodal request are, for a refinement, the
\* composite image then the prompt, with neither the room image nor a product
\* image; otherwise the room image, then the image of each product that has one,
\* in the order of the products, then the prompt. The prompt is always last.
C29_RequestParts ==
  \A i \in DOMAIN pending :
    LET cs == pending[i].cs
        parts == MultimodalParts(pending[i].params) IN
      /\ parts[Len(parts)] = TextPart(cs.prompt)
      /\ parts = IF cs.isInitialGeneration
                 THEN <<dataUrlToGeminiPart(cs.roomImage)>> \o ItemParts(cs.products)
                        \o <<TextPart(cs.prompt)>>
                 ELSE <<dataUrlToGeminiPart(cs.generatedImage), TextPart(cs.prompt)>>
C29_Witness ==
  /\ Len(pending) = 1 /\ pending[1].cs.isInitialGeneration
  /\ Len(pending[1].cs.products) = 2
  /\ pending[1].cs.products[1].image = Null
  /\ pending[1].cs.products[2].image # pending[1].cs.roomImage
  /\ Len(MultimodalParts(pending[1].params)) = 3

\* The images of the products that have one, in the order of the products.
RECURSIVE ItemImages(_)
ItemImages(ps) ==
  IF ps = <<>> THEN <<>>
  ELSE (IF Head(ps).image # Null THEN <<Head(ps).image>> ELSE <<>>) \o ItemImages(Tail(ps))

\* C30: a composite request that was sent keeps the room image, product images,
\* base composite and prompt of the moment it was sent: while it is
\* outstanding no upload and no completion of a product or room image request
\* changes the argument generateVisual works with, in either of its two calls.
C30_DispatchedInputsFixed ==
  [][\A i \in DOMAIN pending :
       LET cs == pending[i].cs
           p == pending[i].params IN
         /\ p.prompt = cs.prompt
         /\ p.roomImage = IF cs.isInitialGeneration THEN cs.roomImage ELSE Null
         /\ p.productImages = IF cs.isInitialGeneration THEN ItemImages(cs.products) ELSE <<>>
         /\ p.baseImage = IF cs.isInitialGeneration THEN Null ELSE cs.generatedImage
         /\ Len(pending') = Len(pending) => pending'[i] = pending[i]]_vars
C30_Witness ==
  /\ Len(pending) = 1 /\ pending[1].cs.isInitialGeneration
  /\ pending[1].cs.products[1].isGenerating
  /\ itemPending = <<>> /\ nSourceRequests = 1
  /\ products[1].image = DataUrl("image/png", "s1")
  /\ pending[1].params.productImages = <<DataUrl("image/jpeg", "u1")>>

\* C31: a handleGeneration call that passes the validation sets isLoading and
\* clears the error as it sends the request, and isLoading is false once the
\* request has settled, whatever the two calls of generateVisual answered.
C31_BusyAroundRequest ==
  [][/\ (handleGeneration /\ ~Truthy(ValidationError))
          => isLoading' /\ error' = NoText /\ Len(pending') = Len(pending) + 1
     /\ \A i \in DOMAIN pending, r1 \in Responses, r2 \in Responses :
          generationSettles(i, r1, r2) => ~isLoading']_vars
C31_Witness ==
  /\ isLoading /\ error = NoText /\ nRequests = 2 /\ Len(pending) = 1
  /\ isInitialGeneration

\* C32: when a composite request settles, its two intervals stop, the progress
\* becomes 100, the status "Complete!" and a timer is set that hides the progress
\* display; with no request outstanding no tick changes progress or status; the
\* progress is never above 100.
C32_SettleCompletes ==
  [][/\ loadingProgress' <= 100
     /\ \A i \in DOMAIN pending, r1 \in ResetResponses, r2 \in ResetResponses :
          generationSettles(i, r1, r2)
            => /\ loadingProgress' = 100 /\ loadingStatus' = "Complete!"
               /\ hideTimers' = hideTimers + 1
               /\ Len(statusIndex') = Len(statusIndex) - 1
     /\ (pending = <<>> /\ pending' = <<>>) => UNCHANGED <<loadingProgress, loadingStatus>>
     /\ hideTimerFires => ~showLoadingProgress']_vars

\* C33, as the code has it: every request that is sent resets the progress to 0
\* and the status to "Initializing..."; each tick of the status interval shows
\* the next string of the list, in list order, whatever the progress is; once
\* the list is exhausted every further tick shows "Finalizing...".
C33_StatusSequence ==
  [][/\ (handleGeneration /\ ~Truthy(ValidationError))
          => loadingProgress' = 0 /\ loadingStatus' = "Initializing..."
     /\ \A i \in DOMAIN statusIndex :
          statusTick(i)
            => /\ statusIndex'[i] = statusIndex[i] + 1
               /\ loadingStatus' = IF statusIndex[i] < Len(statusMessages)
                                   THEN statusMessages[statusIndex[i] + 1]
                                   ELSE "Finalizing..."
               /\ UNCHANGED loadingProgress]_vars
C33_Witness ==
  /\ Len(pending) = 1 /\ statusIndex = <<Len(statusMessages) + 2>>
  /\ loadingStatus = "Finalizing..." /\ loadingProgress < 90

\* C33, as stated: every request that is sent resets the progress to 0, and
\* each tick of the status interval shows the next string of the list, starting
\* over at the first string after the last one, for as long as the request is
\* outstanding.
C33_StatusCycles ==
  [][/\ (handleGeneration /\ ~Truthy(ValidationError)) => loadingProgress' = 0
     /\ \A i \in DOMAIN statusIndex :
          statusTick(i)
            => /\ statusIndex'[i] = statusIndex[i] + 1
               /\ loadingStatus' = statusMessages[(statusIndex[i] % Len(statusMessages)) + 1]
               /\ UNCHANGED loadingProgress]_vars

\* C34: the ticks of the two intervals and the hide timer of simulateProgress
\* write progress, status and visibility only: they change no field of the
\* session, no busy flag, no error, no history entry or cursor and no
\* outstanding request or scheduled save.
C34_TicksObserveOnly ==
  [][((\E d \in RandomIncrements : progressTick(d))
      \/ (\E i \in DOMAIN statusIndex : statusTick(i))
      \/ hideTimerFires)
       => UNCHANGED <<session, store, sources, pending, saveTimers, promptTimers,
                      hgIndex, productsRef>>]_vars
C34_Witness ==
  /\ Len(pending) = 1 /\ isLoading /\ loadingProgress >= 90
  /\ statusIndex = <<3>> /\ hideTimers = 0 /\ nRequests = 2 /\ ~showLoadingProgress

\* C35: after resetExperience the error is cleared and no busy flag is set:
\* isLoading, isGeneratingRoom and every product's isGenerating are false, also
\* when a room, product or composite request was outstanding at the reset.
C35_ResetClearsBusy ==
  [][ResetStep
       => /\ error' = NoText
          /\ ~isLoading'
          /\ ~isGeneratingRoom'
          /\ \A j \in DOMAIN products' : ~products'[j].isGenerating]_vars

\* C36: every deferred save that appends a snapshot leaves the cursor on the
\* new last entry, so that redo is not possible, also when the append drops
\* the oldest entry; a deferred save that runs while the session has no
\* composite image changes neither the entries nor the cursor.
C36_CommitCursorAtTail ==
  [][/\ (SaveStep /\ history' # history)
          => /\ currentIndex' = Len(history') - 1
             /\ ~(currentIndex' < Len(history') - 1)
     /\ (SaveStep /\ ~Present(generatedImage)) => UNCHANGED <<history, currentIndex>>]_vars

\* All entries of a sequence but the last.
Front(h) == SubSeq(h, 1, Len(h) - 1)

\* C37: a snapshot in the history never changes. Undo and redo leave the
\* entries as they are; the entries change only when a deferred save appends
\* (or when they are cleared), and after an append every entry before the new
\* one is an old entry, unchanged and in the old order. Uploads, completions of
\* product and room image requests, busy flags and prompt edits change no entry.
C37_SnapshotsImmutable ==
  [][/\ (undo \/ redo) => history' = history
     /\ history' # history => (SaveStep \/ history' = <<>>)
     /\ (SaveStep /\ history' # history)
          => \E lo \in 1..(Len(history) + 1), hi \in 0..Len(history) :
               Front(history') = SubSeq(history, lo, hi)]_vars
C37_Witness ==
  /\ Len(history) = 2 /\ undoFrom.last = "redo"
  /\ history[1].products[1].isGenerating /\ ~products[1].isGenerating
  /\ itemPending = <<>> /\ nSourceRequests = 1

\* C38: the validation errors, service errors and soft failures of
\* handleGeneration, handleGenerateProduct and handleGenerateRoom all end as the
\* one value of error: each replaces whatever error was shown, and sending a
\* request that passed the validation clears it.
C38_SingleErrorSlot ==
  [][/\ handleGeneration
          => error' = IF Truthy(ValidationError) THEN ValidationError ELSE NoText
     /\ \A i \in DOMAIN pending, r1 \in ResetResponses, r2 \in ResetResponses :
          LET result == generateVisual(pending[i].params, r1, r2) IN
            generationSettles(i, r1, r2)
              => error' = IF result.threw THEN "Error: " \o result.message
                          ELSE IF Truthy(result.image) THEN error
                          ELSE IF Truthy(result.text) THEN result.text
                          ELSE "Failed to generate image. The model may not have returned an image."
     /\ \A i \in DOMAIN products, g \in GenPrompts :
          productGenerateClick(i, g) => error' = NoText
     /\ \A k \in DOMAIN itemPending, r \in SourceResponses :
          productSettles(k, r)
            => error' = IF generateSourceImage(r).threw
                        THEN "Error generating product " \o ToString(itemPending[k].index + 1)
                               \o ": " \o generateSourceImage(r).message
                        ELSE error
     /\ \A g \in GenPrompts : roomGenerateClick(g) => error' = NoText
     /\ \A r \in SourceResponses :
          roomSettles(r)
            => error' = IF generateSourceImage(r).threw
                        THEN "Error generating room: " \o generateSourceImage(r).message
                        ELSE error]_vars
C38_Witness ==
  /\ error = "Error generating room: Gemini API Error: 503"
  /\ nRequests = 1 /\ pending = <<>> /\ isInitialGeneration
  /\ roomPending = 0 /\ nSourceRequests = 1 /\ Truthy(prompt)

\* C39: when the session shows composite X and undo is possible, an undo
\* followed at once by a redo leaves the session showing X again.  The redo is
\* taken from the entries and the cursor exactly as the undo left them.
C39_UndoRedoRestoresShown ==
  [][(/\ undoFrom.valid /\ undoFrom.last = "undo"
      /\ history = undoFrom.entries /\ currentIndex = undoFrom.cursor - 1
      /\ undoFrom'.redone)
       => generatedImage' = undoFrom.shown]_vars

\* C40: after resetExperience the completion of a composite request that was
\* sent before the reset does not set the composite image, does not switch the
\* mode to REFINEMENT and does not clear the prompt typed after the reset.
C40_PreResetCompletionInert ==
  [][\A i \in DOMAIN pending, r1 \in ResetResponses, r2 \in ResetResponses :
       (generationSettles(i, r1, r2) /\ pending[i].preReset)
         => UNCHANGED <<generatedImage, isInitialGeneration, prompt>>]_vars

====
